---- MODULE Spec2Model ----
(***************************************************************************)
(* Model of stratisd's D-Bus dispatch layer (src/src/dbus_api.rs) and of   *)
(* the simulator engine behind it (src/src/sim_engine.rs).                 *)
(*                                                                         *)
(* Four specifications share the variables:                                 *)
(*   Spec      the manager interface: one action per D-Bus method handler  *)
(*             registered by get_base_tree;                                *)
(*   PoolSpec  a caller of the Engine and Pool traits that keeps the       *)
(*             Box<Pool> values returned by SimEngine::create_pool and     *)
(*             calls add_blockdev / add_cachedev / destroy on them;        *)
(*   PropSpec  callers of DbusContext::update_one;                         *)
(*   ConcSpec  the handlers at the grain of their statements, with several *)
(*             requests waiting on the connection at once.                 *)
(*                                                                         *)
(* The program keeps almost no state (SimEngine has no fields, SimPool has *)
(* only `tmp`), so what a client was told is recorded in history variables *)
(* (registered, issued, retired, before, attached, cached, destroyed).     *)
(* They are computed from the replies the code produces and never          *)
(* influence them.                                                         *)
(***************************************************************************)
EXTENDS Integers, Sequences, FiniteSets, TLC

(* ------------------------------ bounds --------------------------------- *)

\* longest argument list of a request
MaxArgs == 3

\* most Box<Pool> values a caller of the Engine trait holds at once
MaxPools == 2

Names == {"pool1", "pool2"}

DevPaths == {"/dev/sda", "/dev/sdb"}

DevLists == {<<"/dev/sdb">>}

\* RAID levels a request may carry: one that is catalogued, one that is not
RaidArgs == {0, 7}

(* --------------------------- message items ----------------------------- *)

\* dbus::MessageItem, one record shape for every variant
\* (s: string payload, n: integer payload, a: strings of an "as" array,
\*  e: the structs of an "a(sqs)" array, each a sequence of three items)
Str(x) == [t |-> "Str", s |-> x, n |-> 0, a |-> <<>>, e |-> <<>>]

UInt16(k) == [t |-> "UInt16", s |-> "", n |-> k, a |-> <<>>, e |-> <<>>]

Int32(k) == [t |-> "Int32", s |-> "", n |-> k, a |-> <<>>, e |-> <<>>]

Array(xs) == [t |-> "Array", s |-> "", n |-> 0, a |-> xs, e |-> <<>>]

StructArray(es) == [t |-> "Array", s |-> "", n |-> 0, a |-> <<>>, e |-> es]

ItemPool ==
    {Str(x) : x \in Names} \cup {Array(ds) : ds \in DevLists}
        \cup {UInt16(k) : k \in RaidArgs}

RECURSIVE SeqsUpTo(_, _)
SeqsUpTo(S, k) ==
    IF k = 0 THEN {<<>>}
    ELSE LET shorter == SeqsUpTo(S, k - 1)
         IN  shorter \cup {Append(q, x) : q \in {r \in shorter : Len(r) = k - 1}, x \in S}

Min(x, y) == IF x < y THEN x ELSE y

Range(q) == {q[i] : i \in 1..Len(q)}

(* ----------------------------- replies --------------------------------- *)

\* Ok(vec![msg]): the handler's MethodResult carries the listed messages,
\* each message being the sequence of items appended to m.method_return()
MethodReturn(msgs) == [kind |-> "Ok", msgs |-> msgs, err |-> ""]

\* Err(MethodErr::no_arg()) / Err(MethodErr::invalid_arg(..))
MethodErr(e) == [kind |-> "Err", msgs |-> <<>>, err |-> e]

NoResult == [kind |-> "None", msgs |-> <<>>, err |-> ""]

NoRequest == [method |-> "None", items |-> <<>>]

(* ------------------------------ engine --------------------------------- *)

\* SimPool::new
SimPool_new == [tmp |-> 4]

\* SimEngine::create_pool: prints and returns a fresh pool, whatever the
\* name and the device paths are.  (createpool passes a RAID level as a third
\* argument; the implementation has no parameter for it and no use of it.)
SimEngine_create_pool(name, blockdev_paths) == [ok |-> TRUE, pool |-> SimPool_new]

\* SimPool::add_blockdev
SimPool_add_blockdev(pool, path) == [ok |-> TRUE, pool |-> pool]

\* SimPool::add_cachedev
SimPool_add_cachedev(pool, path) == [ok |-> TRUE, pool |-> pool]

\* SimPool::destroy
SimPool_destroy(pool) == [ok |-> TRUE, pool |-> pool]

(* ----------------------------- catalogs -------------------------------- *)

\* StratisErrorEnum::STRATIS_OK as i32 (dbus_consts): 0 = OK
STRATIS_OK == 0

\* StratisErrorEnum::iterator(), in declaration order: (name, id, description)
ErrorCatalog ==
    << <<Str("STRATIS_OK"), UInt16(0), Str("Ok")>>,
       <<Str("STRATIS_ERROR"), UInt16(1), Str("A general error happened")>>,
       <<Str("STRATIS_NOTFOUND"), UInt16(2), Str("Not found")>> >>

\* StratisRaidType::iterator(), in declaration order: (name, id, description)
RaidCatalog ==
    << <<Str("STRATIS_RAID_TYPE_SINGLE"), UInt16(0), Str("Single")>>,
       <<Str("STRATIS_RAID_TYPE_RAID1"), UInt16(1), Str("Mirrored")>> >>

(* ----------------------------- handlers -------------------------------- *)

\* Message::method_return: a fresh reply with no items
method_return == <<>>

\* Message::append1/2/3: consume a message and return it with items added
append1(msg, x) == msg \o <<x>>

append2(msg, x, y) == msg \o <<x, y>>

append3(msg, x, y, z) == msg \o <<x, y, z>>

\* Vec::pop: the last item and the rest
Last(q) == q[Len(q)]

Front(q) == SubSeq(q, 1, Len(q) - 1)

\* what a handler did: its MethodResult and the Engine calls it made
Handled(res, calls) == [res |-> res, calls |-> calls]

\* listpools with the five replies it builds sent along with the sixth
listpools_sending_all(items) ==
    LET built == [k \in 1..5 |->
                    append2(method_return,
                            Str(<<"pool1", "pool2", "pool3", "pool4", "pool5">>[k]),
                            Int32(STRATIS_OK))]
    IN  Handled(MethodReturn(built \o <<method_return>>), <<>>)

\* listpools: five replies are built and dropped, a sixth, empty one is sent
listpools(items) ==
    LET dropped == {append2(method_return, Str(x), Int32(STRATIS_OK)) :
                        x \in {"pool1", "pool2", "pool3", "pool4", "pool5"}}
    IN  Handled(MethodReturn(<<method_return>>), <<>>)

\* createpool with the Engine call made before pool_name is read
createpool_engine_first(items) ==
    IF Len(items) < 1 THEN Handled(MethodErr("no_arg"), <<>>)
    ELSE LET i1 == Last(items)
             r1 == Front(items)
         IN  IF i1.t # "UInt16" THEN Handled(MethodErr("invalid_arg"), <<>>)
             ELSE IF Len(r1) = 0 THEN Handled(MethodErr("no_arg"), <<>>)
             ELSE LET i2 == Last(r1)
                      r2 == Front(r1)
                  IN  IF i2.t # "Array" THEN Handled(MethodErr("invalid_arg"), <<>>)
                      ELSE LET result == SimEngine_create_pool("", <<>>)
                               call == <<[name |-> IF Len(r2) > 0 THEN Last(r2).s ELSE "",
                                          devs |-> <<>>, raid |-> i1.n, ok |-> result.ok]>>
                           IN  IF Len(r2) = 0 THEN Handled(MethodErr("no_arg"), call)
                               ELSE IF Last(r2).t # "Str"
                                    THEN Handled(MethodErr("invalid_arg"), call)
                                    ELSE Handled(
                                          MethodReturn(<<append3(method_return,
                                              Str("/dbus/newpool/path"), Int32(0), Str("Ok"))>>),
                                          call)

\* createpool that knows one pool name, as listpools knows five: any other
\* name is answered with the code of STRATIS_ERROR
createpool_one_name(items) ==
    IF Len(items) < 1 THEN Handled(MethodErr("no_arg"), <<>>)
    ELSE LET i1 == Last(items)
             r1 == Front(items)
         IN  IF i1.t # "UInt16" THEN Handled(MethodErr("invalid_arg"), <<>>)
             ELSE IF Len(r1) = 0 THEN Handled(MethodErr("no_arg"), <<>>)
             ELSE LET i2 == Last(r1)
                      r2 == Front(r1)
                  IN  IF i2.t # "Array" THEN Handled(MethodErr("invalid_arg"), <<>>)
                      ELSE IF Len(r2) = 0 THEN Handled(MethodErr("no_arg"), <<>>)
                      ELSE IF Last(r2).t # "Str" THEN Handled(MethodErr("invalid_arg"), <<>>)
                      ELSE Handled(
                             MethodReturn(<<append3(method_return,
                                 Str("/dbus/newpool/path"),
                                 Int32(IF Last(r2).s = "pool1" THEN 0 ELSE 1),
                                 Str(IF Last(r2).s = "pool1" THEN "Ok" ELSE "Error"))>>),
                             <<[name |-> Last(r2).s, devs |-> <<>>,
                                raid |-> i1.n, ok |-> TRUE]>>)

\* createpool: the arguments are popped from the back (raid_type, dev_list,
\* pool_name); the Engine is called with an empty device slice and its
\* result is dropped; the reply is a fixed triple
createpool(items) ==
    IF Len(items) < 1 THEN Handled(MethodErr("no_arg"), <<>>)
    ELSE LET i1 == Last(items)
             r1 == Front(items)
         IN  IF i1.t # "UInt16" THEN Handled(MethodErr("invalid_arg"), <<>>)
             ELSE IF Len(r1) = 0 THEN Handled(MethodErr("no_arg"), <<>>)
             ELSE LET i2 == Last(r1)
                      r2 == Front(r1)
                  IN  IF i2.t # "Array" THEN Handled(MethodErr("invalid_arg"), <<>>)
                      ELSE IF Len(r2) = 0 THEN Handled(MethodErr("no_arg"), <<>>)
                      ELSE LET i3 == Last(r2)
                           IN  IF i3.t # "Str" THEN Handled(MethodErr("invalid_arg"), <<>>)
                               ELSE LET raid_level == i1.n
                                        devs == i2.a
                                        name == i3.s
                                        result == SimEngine_create_pool(name, <<>>)
                                    IN  Handled(
                                          MethodReturn(<<append3(method_return,
                                              Str("/dbus/newpool/path"), Int32(0), Str("Ok"))>>),
                                          <<[name |-> name, devs |-> <<>>,
                                             raid |-> raid_level, ok |-> result.ok]>>)

\* destroypool: a fixed triple, the message is not read
destroypool(items) ==
    Handled(MethodReturn(<<append3(method_return,
                Str("/dbus/pool/path"), Int32(0), Str("Ok"))>>), <<>>)

\* getpoolobjectpath
getpoolobjectpath(items) ==
    Handled(MethodReturn(<<append3(method_return,
                Str("/dbus/pool/path"), Int32(0), Str("Ok"))>>), <<>>)

\* getvolumeobjectpath
getvolumeobjectpath(items) ==
    Handled(MethodReturn(<<append3(method_return,
                Str("/dbus/volume/path"), Int32(0), Str("Ok"))>>), <<>>)

\* getdevobjectpath
getdevobjectpath(items) ==
    Handled(MethodReturn(<<append3(method_return,
                Str("/dbus/dev/path"), Int32(0), Str("Ok"))>>), <<>>)

\* getcacheobjectpath
getcacheobjectpath(items) ==
    Handled(MethodReturn(<<append3(method_return,
                Str("/dbus/cache/path"), Int32(0), Str("Ok"))>>), <<>>)

\* the entry built for one catalog member: its Display name, its
\* get_error_int and its get_error_string
CatalogEntry(member) == <<Str(member[1].s), UInt16(member[2].n), Str(member[3].s)>>

\* the for loop of geterrorcodes / getraidlevels: the entry of each member
\* the iterator yields is pushed onto msg_vec
RECURSIVE PushEntries(_, _)
PushEntries(iterator, msg_vec) ==
    IF iterator = <<>> THEN msg_vec
    ELSE PushEntries(Tail(iterator), Append(msg_vec, CatalogEntry(Head(iterator))))

\* geterrorcodes with each entry inserted at the front of msg_vec
RECURSIVE InsertEntries(_, _)
InsertEntries(iterator, msg_vec) ==
    IF iterator = <<>> THEN msg_vec
    ELSE InsertEntries(Tail(iterator), <<CatalogEntry(Head(iterator))>> \o msg_vec)

geterrorcodes_reversed(items) ==
    Handled(MethodReturn(<<append1(method_return,
                StructArray(InsertEntries(ErrorCatalog, <<>>)))>>), <<>>)

\* geterrorcodes: one (sqs) struct per catalog entry, in iteration order
geterrorcodes(items) ==
    Handled(MethodReturn(<<append1(method_return,
                StructArray(PushEntries(ErrorCatalog, <<>>)))>>), <<>>)

\* getraidlevels
getraidlevels(items) ==
    Handled(MethodReturn(<<append1(method_return,
                StructArray(PushEntries(RaidCatalog, <<>>)))>>), <<>>)

\* getdevtypes: wants a string as last argument, replies with no items
getdevtypes(items) ==
    IF Len(items) < 1 THEN Handled(MethodErr("no_arg"), <<>>)
    ELSE IF Last(items).t # "Str" THEN Handled(MethodErr("invalid_arg"), <<>>)
    ELSE Handled(MethodReturn(<<method_return>>), <<>>)

\* get_base_tree: the in_arg signature declared for each method
InArgs(method) ==
    CASE method = "ListPools" -> <<>>
      [] method = "CreatePool" -> <<"Str", "Array", "UInt16">>
      [] method = "DestroyPool" -> <<"Str">>
      [] method = "GetPoolObjectPath" -> <<"Str">>
      [] method = "GetVolumeObjectPath" -> <<"Str", "Str">>
      [] method = "GetDevObjectPath" -> <<"Str">>
      [] method = "GetCacheObjectPath" -> <<"Str">>
      [] method = "GetErrorCodes" -> <<>>
      [] method = "GetRaidLevels" -> <<>>
      [] method = "GetDevTypes" -> <<>>

\* the argument lists a request for the method is drawn from: at most
\* MaxArgs items, and at most one more than the method declares
ArgLists(method) == SeqsUpTo(ItemPool, Min(MaxArgs, Len(InArgs(method)) + 1))

\* get_base_tree: the closure registered for each method
Dispatch(method, items) ==
    CASE method = "ListPools" -> listpools(items)
      [] method = "CreatePool" -> createpool(items)
      [] method = "DestroyPool" -> destroypool(items)
      [] method = "GetPoolObjectPath" -> getpoolobjectpath(items)
      [] method = "GetVolumeObjectPath" -> getvolumeobjectpath(items)
      [] method = "GetDevObjectPath" -> getdevobjectpath(items)
      [] method = "GetCacheObjectPath" -> getcacheobjectpath(items)
      [] method = "GetErrorCodes" -> geterrorcodes(items)
      [] method = "GetRaidLevels" -> getraidlevels(items)
      [] method = "GetDevTypes" -> getdevtypes(items)

(* ------------------------ reading a reply ------------------------------ *)

\* the single reply message of a result, <<>> when there is none
ReplyItems(res) == IF res.kind = "Ok" /\ Len(res.msgs) = 1 THEN res.msgs[1] ELSE <<>>

\* out_arg return_code of the (payload, code, string) replies; -1 when absent
ReplyCode(res) ==
    LET m == ReplyItems(res)
    IN  IF Len(m) = 3 /\ m[2].t \in {"Int32", "UInt16"} THEN m[2].n ELSE -1

\* out_arg object_path; "" when absent
ReplyPath(res) ==
    LET m == ReplyItems(res)
    IN  IF Len(m) = 3 /\ m[1].t = "Str" THEN m[1].s ELSE ""

\* out_arg pool_names of ListPools; <<>> when absent
ReplyPoolNames(res) ==
    LET m == ReplyItems(res)
    IN  IF Len(m) >= 1 /\ m[1].t = "Array" THEN m[1].a ELSE <<>>

\* in_arg pool_name: the first argument when it is a string, "" otherwise
PoolNameArg(items) == IF Len(items) >= 1 /\ items[1].t = "Str" THEN items[1].s ELSE ""

\* the arguments lack a declared in_arg or carry one of another type
BadArgs(method, items) ==
    \/ Len(items) < Len(InArgs(method))
    \/ \E i \in 1..Len(InArgs(method)) : i <= Len(items) /\ items[i].t # InArgs(method)[i]

Without(q, x) == SelectSeq(q, LAMBDA y : y # x)

(* --------------------------- DbusContext ------------------------------- *)

\* the Property fields of DbusContext
PropNames == {"name_prop", "remaining_prop", "total_prop", "status_prop",
              "running_status_prop", "block_devices_prop"}

\* values update_one is called with
UpdateValues == {Str("pool1"), UInt16(0)}

\* a Property no value was set on yet
Unset == [t |-> "None", s |-> "", n |-> 0, a |-> <<>>, e |-> <<>>]

\* StratisResult<()>
StratisOk == [ok |-> TRUE, kind |-> "", name |-> "", message |-> ""]

\* Err(StratisError::Dbus(dbus::Error::new_custom(name, message)))
StratisDbusErr(name, message) ==
    [ok |-> FALSE, kind |-> "Dbus", name |-> name, message |-> message]

\* update_one with the failure of set_value swallowed
update_one_swallowing(set_ok) == StratisOk

\* DbusContext::update_one, given whether prop.set_value(m) returned Ok
update_one(set_ok) ==
    IF set_ok THEN StratisOk
    ELSE StratisDbusErr("UpdateError", "Could not update property with value")

NoUpdate == [prop |-> "", value |-> Unset, set_ok |-> TRUE, result |-> StratisOk]

(* ----------------------- concurrent requests --------------------------- *)

\* most requests that wait on the connection or run at the same time
MaxInflight == 2

Slots == 1..MaxInflight

Idle == [method |-> "None", items |-> <<>>, pc |-> "idle"]

Methods == {"ListPools", "CreatePool", "DestroyPool", "GetPoolObjectPath",
            "GetVolumeObjectPath", "GetDevObjectPath", "GetCacheObjectPath",
            "GetErrorCodes", "GetRaidLevels", "GetDevTypes"}

\* the arguments a waiting request carries: none, or the declared ones
ConcArgs(method) ==
    {<<>>} \cup
    (CASE method = "CreatePool" -> {<<Str("pool1"), Array(<<"/dev/sdb">>), UInt16(0)>>}
       [] method \in {"DestroyPool", "GetPoolObjectPath", "GetDevObjectPath",
                      "GetCacheObjectPath", "GetDevTypes"} -> {<<Str("pool1")>>}
       [] method = "GetVolumeObjectPath" -> {<<Str("pool1"), Str("pool2")>>}
       [] OTHER -> {})

(* ------------------------------ state ---------------------------------- *)

VARIABLES
    request,        \* the Message the dispatcher handled last
    response,       \* the MethodResult its handler returned
    engine_calls,   \* Engine calls made while handling it: <<[name, devs, raid, ok]>>
    registered,     \* history: names whose CreatePool was answered with code 0 and
                    \* whose DestroyPool was not, in order of creation
    issued,         \* history: name -> object path the CreatePool reply carried
    retired,        \* history: object paths of pools whose DestroyPool was answered 0
    before,         \* history: registered as it was when the last request arrived
    pools,          \* Box<Pool> values held by a caller of the Engine trait
    attached,       \* history: per pool, the paths it accepted as block devices
    cached,         \* history: per pool, the paths it accepted as cache devices
    destroyed,      \* history: per pool, whether destroy() returned Ok on it
    pool_call,      \* the last Engine/Pool trait call and its result
    props,          \* the value each Property of the DbusContext holds
    update,         \* the last update_one call: what set_value and update_one returned
    handlers,       \* per invocation slot: the request and the statement it is at
    thread,         \* the invocation the tree's thread is executing, 0 when none
    borrows         \* outstanding borrow()s of the RefCell<Engine>

rpcVars == <<request, response, engine_calls, registered, issued, retired, before>>

poolVars == <<pools, attached, cached, destroyed, pool_call>>

propVars == <<props, update>>

concVars == <<handlers, thread, borrows>>

vars == <<request, response, engine_calls, registered, issued, retired, before,
          pools, attached, cached, destroyed, pool_call,
          props, update, handlers, thread, borrows>>

\* a tree of MethodSync closures served by a thread per message
CanDispatch_sync == TRUE

\* get_base_tree builds the tree with Factory::new_fn and moves an
\* Rc<RefCell<Engine>> into the createpool closure: the closures are plain
\* Fn calls on the one thread that owns the tree, so a message is dispatched
\* only when the previous closure has returned
CanDispatch == thread = 0

\* owned_before / cached_before / destroyed_before: what the history said
\* about the path and the pool when the call was made
NoCall == [op |-> "None", pool |-> 0, path |-> "", ok |-> TRUE,
           owned_before |-> FALSE, cached_before |-> FALSE, destroyed_before |-> FALSE]

PoolCall(op, i, path, ok, owned, incache, dead) ==
    [op |-> op, pool |-> i, path |-> path, ok |-> ok,
     owned_before |-> owned, cached_before |-> incache, destroyed_before |-> dead]

Init ==
    /\ request = NoRequest
    /\ response = NoResult
    /\ engine_calls = <<>>
    /\ registered = <<>>
    /\ issued = [x \in Names |-> ""]
    /\ retired = {}
    /\ before = <<>>
    /\ pools = <<>>
    /\ attached = <<>>
    /\ cached = <<>>
    /\ destroyed = <<>>
    /\ pool_call = NoCall
    /\ props = [p \in PropNames |-> Unset]
    /\ update = NoUpdate
    /\ handlers = [h \in Slots |-> Idle]
    /\ thread = 0
    /\ borrows = 0

(* ----------------------- manager interface ----------------------------- *)

\* the part every handler invocation shares: the request is dispatched to
\* its closure and answered
Serve(method, items) ==
    /\ request' = [method |-> method, items |-> items]
    /\ response' = Dispatch(method, items).res
    /\ engine_calls' = Dispatch(method, items).calls
    /\ before' = registered

ListPools(items) ==
    /\ Serve("ListPools", items)
    /\ UNCHANGED <<registered, issued, retired>>
    /\ UNCHANGED poolVars
    /\ UNCHANGED <<propVars, concVars>>

CreatePool(items) ==
    /\ Serve("CreatePool", items)
    /\ LET out == createpool(items)
       IN  IF ReplyCode(out.res) = 0
           THEN LET name == out.calls[1].name
                IN  /\ registered' = IF name \in Range(registered) THEN registered
                                     ELSE Append(registered, name)
                    /\ issued' = [issued EXCEPT ![name] = ReplyPath(out.res)]
           ELSE UNCHANGED <<registered, issued>>
    /\ UNCHANGED retired
    /\ UNCHANGED poolVars
    /\ UNCHANGED <<propVars, concVars>>

DestroyPool(items) ==
    /\ Serve("DestroyPool", items)
    /\ LET out == destroypool(items)
           name == PoolNameArg(items)
       IN  IF ReplyCode(out.res) = 0 /\ name \in Range(registered)
           THEN /\ registered' = Without(registered, name)
                /\ retired' = retired \cup {issued[name]}
                /\ issued' = [issued EXCEPT ![name] = ""]
           ELSE UNCHANGED <<registered, issued, retired>>
    /\ UNCHANGED poolVars
    /\ UNCHANGED <<propVars, concVars>>

GetPoolObjectPath(items) ==
    /\ Serve("GetPoolObjectPath", items)
    /\ UNCHANGED <<registered, issued, retired>>
    /\ UNCHANGED poolVars
    /\ UNCHANGED <<propVars, concVars>>

GetVolumeObjectPath(items) ==
    /\ Serve("GetVolumeObjectPath", items)
    /\ UNCHANGED <<registered, issued, retired>>
    /\ UNCHANGED poolVars
    /\ UNCHANGED <<propVars, concVars>>

GetDevObjectPath(items) ==
    /\ Serve("GetDevObjectPath", items)
    /\ UNCHANGED <<registered, issued, retired>>
    /\ UNCHANGED poolVars
    /\ UNCHANGED <<propVars, concVars>>

GetCacheObjectPath(items) ==
    /\ Serve("GetCacheObjectPath", items)
    /\ UNCHANGED <<registered, issued, retired>>
    /\ UNCHANGED poolVars
    /\ UNCHANGED <<propVars, concVars>>

GetErrorCodes(items) ==
    /\ Serve("GetErrorCodes", items)
    /\ UNCHANGED <<registered, issued, retired>>
    /\ UNCHANGED poolVars
    /\ UNCHANGED <<propVars, concVars>>

GetRaidLevels(items) ==
    /\ Serve("GetRaidLevels", items)
    /\ UNCHANGED <<registered, issued, retired>>
    /\ UNCHANGED poolVars
    /\ UNCHANGED <<propVars, concVars>>

GetDevTypes(items) ==
    /\ Serve("GetDevTypes", items)
    /\ UNCHANGED <<registered, issued, retired>>
    /\ UNCHANGED poolVars
    /\ UNCHANGED <<propVars, concVars>>

Next ==
    \/ \E items \in ArgLists("ListPools") : ListPools(items)
    \/ \E items \in ArgLists("CreatePool") : CreatePool(items)
    \/ \E items \in ArgLists("DestroyPool") : DestroyPool(items)
    \/ \E items \in ArgLists("GetPoolObjectPath") : GetPoolObjectPath(items)
    \/ \E items \in ArgLists("GetVolumeObjectPath") : GetVolumeObjectPath(items)
    \/ \E items \in ArgLists("GetDevObjectPath") : GetDevObjectPath(items)
    \/ \E items \in ArgLists("GetCacheObjectPath") : GetCacheObjectPath(items)
    \/ \E items \in ArgLists("GetErrorCodes") : GetErrorCodes(items)
    \/ \E items \in ArgLists("GetRaidLevels") : GetRaidLevels(items)
    \/ \E items \in ArgLists("GetDevTypes") : GetDevTypes(items)

Spec == Init /\ [][Next]_vars

(* ------------------------ Engine / Pool traits ------------------------- *)

\* history: some pool that was not destroyed accepted the path as a block device
Owned(path) == \E i \in 1..Len(pools) : ~destroyed[i] /\ path \in attached[i]

\* history: ... as a cache device
OwnedAsCache(path) == \E i \in 1..Len(pools) : ~destroyed[i] /\ path \in cached[i]

\* Engine::create_pool called directly; the caller keeps the Box<Pool>
EngineCreatePool(name, blockdev_paths) ==
    /\ Len(pools) < MaxPools
    /\ LET result == SimEngine_create_pool(name, blockdev_paths)
       IN  /\ result.ok
           /\ pools' = Append(pools, result.pool)
           /\ attached' = Append(attached, Range(blockdev_paths))
           /\ cached' = Append(cached, {})
           /\ destroyed' = Append(destroyed, FALSE)
           /\ pool_call' = PoolCall("create_pool", Len(pools) + 1, "", result.ok,
                                    \E d \in Range(blockdev_paths) : Owned(d),
                                    \E d \in Range(blockdev_paths) : OwnedAsCache(d),
                                    FALSE)
    /\ UNCHANGED rpcVars
    /\ UNCHANGED <<propVars, concVars>>

AddBlockdev(i, path) ==
    /\ i \in 1..Len(pools)
    /\ LET result == SimPool_add_blockdev(pools[i], path)
       IN  /\ pools' = [pools EXCEPT ![i] = result.pool]
           /\ attached' = IF result.ok THEN [attached EXCEPT ![i] = @ \cup {path}]
                          ELSE attached
           /\ pool_call' = PoolCall("add_blockdev", i, path, result.ok,
                                    Owned(path), OwnedAsCache(path), destroyed[i])
    /\ UNCHANGED <<cached, destroyed>>
    /\ UNCHANGED rpcVars
    /\ UNCHANGED <<propVars, concVars>>

AddCachedev(i, path) ==
    /\ i \in 1..Len(pools)
    /\ LET result == SimPool_add_cachedev(pools[i], path)
       IN  /\ pools' = [pools EXCEPT ![i] = result.pool]
           /\ cached' = IF result.ok THEN [cached EXCEPT ![i] = @ \cup {path}]
                        ELSE cached
           /\ pool_call' = PoolCall("add_cachedev", i, path, result.ok,
                                    Owned(path), OwnedAsCache(path), destroyed[i])
    /\ UNCHANGED <<attached, destroyed>>
    /\ UNCHANGED rpcVars
    /\ UNCHANGED <<propVars, concVars>>

Destroy(i) ==
    /\ i \in 1..Len(pools)
    /\ LET result == SimPool_destroy(pools[i])
       IN  /\ pools' = [pools EXCEPT ![i] = result.pool]
           /\ destroyed' = IF result.ok THEN [destroyed EXCEPT ![i] = TRUE]
                           ELSE destroyed
           /\ pool_call' = PoolCall("destroy", i, "", result.ok, FALSE, FALSE, destroyed[i])
    /\ UNCHANGED <<attached, cached>>
    /\ UNCHANGED rpcVars
    /\ UNCHANGED <<propVars, concVars>>

PoolDevLists == {<<d>> : d \in DevPaths}

PoolNext ==
    \/ \E name \in Names, devs \in PoolDevLists : EngineCreatePool(name, devs)
    \/ \E i \in 1..MaxPools, path \in DevPaths : AddBlockdev(i, path)
    \/ \E i \in 1..MaxPools, path \in DevPaths : AddCachedev(i, path)
    \/ \E i \in 1..MaxPools : Destroy(i)

PoolSpec == Init /\ [][PoolNext]_vars

(* ----------------------------- properties ------------------------------ *)

\* DbusContext::update_one(prop, m): prop.set_value(m) is the dbus
\* library's; it either stores m and returns Ok or returns Err(())
UpdateOne(prop, m, set_ok) ==
    /\ props' = IF set_ok THEN [props EXCEPT ![prop] = m] ELSE props
    /\ update' = [prop |-> prop, value |-> m, set_ok |-> set_ok,
                  result |-> update_one(set_ok)]
    /\ UNCHANGED <<rpcVars, poolVars, concVars>>

PropNext ==
    \E prop \in PropNames, m \in UpdateValues, set_ok \in BOOLEAN : UpdateOne(prop, m, set_ok)

PropSpec == Init /\ [][PropNext]_vars

(* ------------------------ handlers, step by step ----------------------- *)

\* a client sends a request; it waits on the connection
Arrive(h, method, items) ==
    /\ handlers[h].pc = "idle"
    /\ handlers' = [handlers EXCEPT ![h] = [method |-> method, items |-> items,
                                            pc |-> "pending"]]
    /\ UNCHANGED <<thread, borrows>>
    /\ UNCHANGED <<rpcVars, poolVars, propVars>>

\* the tree calls the closure of the request's method
Begin(h) ==
    /\ handlers[h].pc = "pending"
    /\ CanDispatch
    /\ handlers' = [handlers EXCEPT ![h].pc = "running"]
    /\ thread' = h
    /\ UNCHANGED borrows
    /\ UNCHANGED <<rpcVars, poolVars, propVars>>

\* createpool, arguments read: engine.borrow().create_pool(..) is entered
EngineEnter(h) ==
    /\ handlers[h].pc = "running"
    /\ handlers[h].method = "CreatePool"
    /\ createpool(handlers[h].items).calls # <<>>
    /\ handlers' = [handlers EXCEPT ![h].pc = "in_engine"]
    /\ borrows' = borrows + 1
    /\ UNCHANGED thread
    /\ UNCHANGED <<rpcVars, poolVars, propVars>>

\* create_pool returns and the borrow is dropped
EngineExit(h) ==
    /\ handlers[h].pc = "in_engine"
    /\ handlers' = [handlers EXCEPT ![h].pc = "replying"]
    /\ borrows' = borrows - 1
    /\ UNCHANGED thread
    /\ UNCHANGED <<rpcVars, poolVars, propVars>>

\* the closure returns its MethodResult
Reply(h) ==
    /\ \/ handlers[h].pc = "replying"
       \/ /\ handlers[h].pc = "running"
          /\ Dispatch(handlers[h].method, handlers[h].items).calls = <<>>
    /\ handlers' = [handlers EXCEPT ![h] = Idle]
    /\ thread' = IF thread = h THEN 0 ELSE thread
    /\ UNCHANGED borrows
    /\ UNCHANGED <<rpcVars, poolVars, propVars>>

ConcNext ==
    \/ \E h \in Slots, method \in Methods :
          \E items \in ConcArgs(method) : Arrive(h, method, items)
    \/ \E h \in Slots : Begin(h)
    \/ \E h \in Slots : EngineEnter(h)
    \/ \E h \in Slots : EngineExit(h)
    \/ \E h \in Slots : Reply(h)

ConcSpec == Init /\ [][ConcNext]_vars

(* ============================ claims =================================== *)

\* the request carries exactly the arguments its method declares
WellFormed == Len(request.items) = Len(InArgs(request.method))
                /\ ~BadArgs(request.method, request.items)

\* number of times a name occurs in a sequence of names
Occurrences(q, x) == Cardinality({i \in 1..Len(q) : q[i] = x})

\* the reply is the (payload, code, description) triple and reports a failure
ReportsFailure(res) == res.kind = "Ok" /\ ReplyCode(res) > 0

\* C1: a create_pool with a fresh name, a non-empty device list and a
\* catalogued RAID level succeeds and returns a path P; get_pool_path of a
\* registered name answers the path its creation returned; list_pools
\* contains every registered name exactly once.
ClaimC1 ==
    /\ (request.method = "CreatePool" /\ WellFormed
            /\ request.items[1].s \notin Range(before)
            /\ Len(request.items[2].a) > 0
            /\ \E k \in 1..Len(RaidCatalog) : RaidCatalog[k][2].n = request.items[3].n)
          => ReplyCode(response) = 0 /\ ReplyPath(response) # ""
    /\ (request.method = "GetPoolObjectPath" /\ WellFormed
            /\ request.items[1].s \in Range(registered))
          => ReplyCode(response) = 0 /\ ReplyPath(response) = issued[request.items[1].s]
    /\ request.method = "ListPools"
          => \A x \in Range(registered) : Occurrences(ReplyPoolNames(response), x) = 1

\* C2: a create_pool whose name was registered when the request arrived is
\* answered with a failure (NameConflict) and leaves the registry as it was.
ClaimC2 ==
    (request.method = "CreatePool" /\ WellFormed /\ request.items[1].s \in Range(before))
        => ReportsFailure(response) /\ registered = before

\* C3: destroy_pool of a name that is not registered fails (NotFound); of a
\* registered name it succeeds and unregisters it; get_pool_path of a name
\* that is not registered fails (NotFound).
ClaimC3 ==
    /\ (request.method = "DestroyPool" /\ WellFormed
            /\ request.items[1].s \notin Range(before))
          => ReportsFailure(response)
    /\ (request.method = "DestroyPool" /\ WellFormed
            /\ request.items[1].s \in Range(before))
          => ReplyCode(response) = 0 /\ request.items[1].s \notin Range(registered)
    /\ (request.method = "GetPoolObjectPath" /\ WellFormed
            /\ request.items[1].s \notin Range(registered))
          => ReportsFailure(response)

\* the methods whose reply is the (payload, code, description) triple
EngineMethods == {"CreatePool", "DestroyPool", "GetPoolObjectPath",
                  "GetVolumeObjectPath", "GetDevObjectPath", "GetCacheObjectPath"}

\* an Engine operation ran for the request and every one that ran returned Ok
EngineSucceeded ==
    Len(engine_calls) > 0 /\ \A k \in 1..Len(engine_calls) : engine_calls[k].ok

\* C4: a reply of CreatePool, DestroyPool or a Get*ObjectPath lookup is a
\* triple whose code is 0 exactly when the Engine operation behind the
\* request succeeded.
ClaimC4 ==
    (request.method \in EngineMethods /\ response.kind = "Ok")
        => /\ Len(ReplyItems(response)) = 3
           /\ (ReplyCode(response) = 0 <=> EngineSucceeded)

\* C5: a request with a missing or mistyped argument is answered with an
\* argument error and makes no Engine call.
ClaimC5 ==
    (request.method # "None" /\ BadArgs(request.method, request.items))
        => response.kind = "Err" /\ engine_calls = <<>>

\* C6: two registered pools never have the same object path, and no
\* registered pool has the path of a pool that was destroyed.
ClaimC6 ==
    /\ \A x, y \in Range(registered) : x # y => issued[x] # issued[y]
    /\ \A x \in Range(registered) : issued[x] \notin retired

\* C7: no block-device path belongs to two pools that are both Active.
ClaimC7 ==
    \A i, j \in 1..Len(pools) :
        (i # j /\ ~destroyed[i] /\ ~destroyed[j]) => attached[i] \cap attached[j] = {}

\* C8: add_blockdev of a path that an Active pool (the callee included)
\* already owns fails.
ClaimC8 ==
    (pool_call.op = "add_blockdev" /\ pool_call.owned_before) => ~pool_call.ok

\* C9: destroy on an Active pool succeeds and leaves it Destroyed; destroy,
\* add_blockdev and add_cachedev on a Destroyed pool fail.
ClaimC9 ==
    /\ (pool_call.op = "destroy" /\ ~pool_call.destroyed_before)
          => pool_call.ok /\ destroyed[pool_call.pool]
    /\ (pool_call.op \in {"destroy", "add_blockdev", "add_cachedev"}
            /\ pool_call.destroyed_before)
          => ~pool_call.ok

\* C10: the ListPools reply lists the registered pools, each once, in the
\* order of their creation, and the request leaves the registry as it was.
ClaimC10 ==
    request.method = "ListPools"
        => /\ response.kind = "Ok"
           /\ ReplyPoolNames(response) = registered
           /\ registered = before

\* C11: a request that is answered with an error makes no Engine call and
\* leaves the registry, the issued paths and the retired paths as they were.
ClaimC11 ==
    [][response'.kind = "Err"
         => /\ engine_calls' = <<>>
            /\ registered' = registered
            /\ issued' = issued
            /\ retired' = retired]_vars

\* a CreatePool with three arguments, one of them mistyped, was refused
\* while a pool was registered
WitnessC11 ==
    /\ request.method = "CreatePool"
    /\ Len(request.items) = 3
    /\ response.kind = "Err"
    /\ Len(registered) > 0
    /\ registered = before

\* the (name, id, description) entries of a catalog reply; <<>> when absent
ReplyEntries(res) ==
    LET m == ReplyItems(res)
    IN  IF Len(m) = 1 /\ m[1].t = "Array" THEN m[1].e ELSE <<>>

\* C12: every GetErrorCodes (GetRaidLevels) reply carries the whole error
\* (RAID) catalog, entry by entry in declaration order, so any two replies
\* are the same sequence; the request leaves the registry as it was.
ClaimC12 ==
    /\ request.method = "GetErrorCodes"
          => /\ response.kind = "Ok"
             /\ ReplyEntries(response) = ErrorCatalog
             /\ engine_calls = <<>>
             /\ registered = before
    /\ request.method = "GetRaidLevels"
          => /\ response.kind = "Ok"
             /\ ReplyEntries(response) = RaidCatalog
             /\ engine_calls = <<>>
             /\ registered = before

\* the error catalog was read after a pool had been created and another
\* destroyed
WitnessC12 ==
    /\ request.method = "GetErrorCodes"
    /\ Len(ReplyEntries(response)) > 1
    /\ Len(registered) > 0
    /\ retired # {}

\* the RAID level is the id of a RaidCatalog member
InRaidCatalog(k) == \E i \in 1..Len(RaidCatalog) : RaidCatalog[i][2].n = k

\* C13: a create_pool whose RAID level is not in the RaidCatalog fails
\* (UnsupportedRaidLevel) and registers no pool.
ClaimC13 ==
    (request.method = "CreatePool" /\ WellFormed /\ ~InRaidCatalog(request.items[3].n))
        => ReportsFailure(response) /\ registered = before

\* C14: get_pool_path answers a path exactly when the named pool is
\* registered and a failure (NotFound) otherwise; get_volume_path fails for
\* a volume that was never created; neither changes the registry.
ClaimC14 ==
    /\ (request.method = "GetPoolObjectPath" /\ WellFormed)
          => /\ ReplyCode(response) = 0 <=> request.items[1].s \in Range(registered)
             /\ ReplyCode(response) = 0 \/ ReportsFailure(response)
             /\ registered = before
    /\ (request.method = "GetVolumeObjectPath" /\ WellFormed)
          => ReportsFailure(response) /\ registered = before

\* every pool that was created has been destroyed, so every device path a
\* request can name is released; a create_pool that arrives then succeeds
DevicesReleased ==
    (/\ request.method = "CreatePool"
     /\ WellFormed
     /\ InRaidCatalog(request.items[3].n)
     /\ before = <<>>
     /\ retired # {})
        => /\ ReplyCode(response) = 0
           /\ request.items[1].s \in Range(registered)

\* a create_pool that follows the successful destroy_pool of the same name
\* succeeds and registers the name again
NameReleased ==
    (/\ request.method = "DestroyPool"
     /\ PoolNameArg(request.items) \in Range(before)
     /\ ReplyCode(response) = 0
     /\ request'.method = "CreatePool"
     /\ Len(request'.items) = 3
     /\ ~BadArgs("CreatePool", request'.items)
     /\ InRaidCatalog(request'.items[3].n)
     /\ request'.items[1].s = PoolNameArg(request.items))
        => /\ ReplyCode(response') = 0
           /\ PoolNameArg(request.items) \in Range(registered')

ClaimC17 ==
    /\ \A i, j \in 1..Len(pools) :
          (i # j /\ ~destroyed[i] /\ ~destroyed[j]) => attached[i] \cap cached[j] = {}
    /\ (pool_call.op = "add_cachedev"
            /\ (pool_call.owned_before \/ pool_call.cached_before))
          => ~pool_call.ok
    /\ (pool_call.op = "add_blockdev" /\ pool_call.cached_before) => ~pool_call.ok

\* C19: the Engine call of a CreatePool request carries the request's
\* pool_name, dev_list and raid_type.
ClaimC19 ==
    (request.method = "CreatePool" /\ WellFormed /\ response.kind = "Ok")
        => /\ Len(engine_calls) = 1
           /\ engine_calls[1].name = request.items[1].s
           /\ engine_calls[1].devs = request.items[2].a
           /\ engine_calls[1].raid = request.items[3].n

\* C20: every handler invocation ends with one reply message or with one
\* method error; a method error is an argument error raised before any
\* Engine call, and a well-formed request to an Engine method gets a reply.
ClaimC20 ==
    request.method # "None"
        => /\ \/ /\ response.kind = "Ok"
                 /\ Len(response.msgs) = 1
                 /\ response.err = ""
              \/ /\ response.kind = "Err"
                 /\ response.msgs = <<>>
                 /\ response.err \in {"no_arg", "invalid_arg"}
                 /\ engine_calls = <<>>
           /\ (request.method \in EngineMethods /\ WellFormed) => response.kind = "Ok"

\* a well-formed CreatePool reached the Engine and was answered with one reply
WitnessC20 ==
    /\ request.method = "CreatePool"
    /\ WellFormed
    /\ Len(engine_calls) = 1
    /\ response.kind = "Ok"
    /\ Len(response.msgs) = 1

\* the invocations that are inside SimEngine::create_pool
InEngine == {h \in Slots : handlers[h].pc = "in_engine"}

\* the invocations whose closure has been called and has not returned
Running == {h \in Slots : handlers[h].pc \in {"running", "in_engine", "replying"}}

\* C16: at most one invocation is inside an Engine operation, the Engine is
\* borrowed at most once, and while an invocation is inside an Engine
\* operation no other handler, read-only or not, is running.
ClaimC16 ==
    /\ Cardinality(InEngine) <= 1
    /\ borrows <= 1
    /\ \A h \in InEngine : Running = {h}

\* a CreatePool is inside the Engine while a ListPools waits
WitnessC16 ==
    \E h, g \in Slots :
        /\ h # g
        /\ handlers[h].pc = "in_engine"
        /\ handlers[g].pc = "pending"
        /\ handlers[g].method = "ListPools"

\* C18: update_one returns Ok(()) exactly when set_value succeeded, and
\* otherwise an Err(StratisError::Dbus(..)) that carries a reason.
ClaimC18 ==
    update.prop # ""
        => /\ update.result.ok <=> update.set_ok
           /\ ~update.set_ok => /\ update.result.kind = "Dbus"
                                /\ update.result.message # ""

\* set_value refused a value for a property that held another one
WitnessC18 ==
    /\ update.prop # ""
    /\ ~update.set_ok
    /\ ~update.result.ok
    /\ props[update.prop] \notin {Unset, update.value}

====
